---- MODULE Spec2Model ----
(***************************************************************************)
(* Model of datasets/coco.py: the annotation normaliser                    *)
(* ConvertCocoPolysToMask.__call__, the pipeline factory                   *)
(* make_coco_transforms, the dataset builder build and the by-index        *)
(* accessor CocoDetection.__getitem__.                                     *)
(*                                                                         *)
(* Tensors are records [shape, data]: shape is the torch shape, data the   *)
(* sequence of rows.  Coordinates are integers; float32 rounding is not    *)
(* modelled.  Quotients are exact rationals <<numerator, denominator>>.    *)
(***************************************************************************)
EXTENDS Integers, Sequences, FiniteSets, TLC

\* obj:   the constructed object (the normaliser or the dataset)
\* store: what the annotation collaborator holds for the image: its size,
\*        its id and its raw annotation list
\* op:    the operation that ran last
\* arg:   its arguments
\* res:   what it returned or raised
VARIABLES obj, store, op, arg, res

vars == <<obj, store, op, arg, res>>

\* ------------------------------------------------------------------ bounds
\* longest annotation list of one image
MaxAnno == 2

\* ------------------------------------------------------- program constants
\* A.Resize(height=640, width=640)
ResizeTo == 640
\* box_xyxy_to_cxcywh(target["boxes"]) / 640.0
NormConst == 640

\* ------------------------------------------------------------------ inputs
\* image sizes (w, h); both divide 640 so that the resize is exact
Sizes == {<<4, 2>>, <<2, 4>>}

\* bbox = (x, y, bw, bh): inside the image, sticking out on the right,
\* left of the image (degenerate after clamping), zero height
Bboxes == {<<0, 0, 2, 2>>, <<1, 0, 4, 1>>, <<-2, 0, 1, 2>>, <<1, 1, 1, 0>>}

CategoryIds == {3, 5}

Areas == {30}

Segmentations == {"poly"}

\* flat list of (x, y, visibility) triples
KeypointLists == {<<1, 1, 2, 0, 1, 1>>}

ImageIds == {139}

\* dict[key] = val
With(d, key, val) == [k \in DOMAIN d \cup {key} |-> IF k = key THEN val ELSE d[k]]

BaseRecords == [bbox : Bboxes, category_id : CategoryIds, area : Areas,
                segmentation : Segmentations]

CrowdRecords == BaseRecords \cup {With(r, "iscrowd", c) : r \in BaseRecords, c \in {0, 1}}

\* annotation records; iscrowd and keypoints are optional keys
Records == CrowdRecords \cup {With(r, "keypoints", k) : r \in CrowdRecords, k \in KeypointLists}

\* annotation records of the images behind the by-index accessor
ItemRecords ==
    {r \in CrowdRecords : "iscrowd" \in DOMAIN r /\ r.bbox[4] > 0
                          /\ (r.iscrowd = 1 => (r.category_id = 3 /\ r.bbox[1] = 0))}

\* size of the images behind the by-index accessor
ItemSizes == Sizes

\* mode strings
ImageSets == {"train", "val", "test"}

SeqsUpTo(S, n) == UNION {[1..k -> S] : k \in 0..n}

\* ----------------------------------------------------------------- tensors
\* torch.as_tensor / torch.tensor of a python list of rows of ncols numbers:
\* an empty list gives a 1-d tensor of shape (0,)
TensorOfRows(rows, ncols) ==
    [shape |-> IF Len(rows) = 0 THEN <<0>> ELSE <<Len(rows), ncols>>, data |-> rows]

\* torch.tensor of a python list of scalars
TensorOfScalars(xs) == [shape |-> <<Len(xs)>>, data |-> xs]

ReshapeNoop(t) == t

\* t.reshape(-1, 4)
Reshape4(t) == [shape |-> <<Len(t.data), 4>>, data |-> t.data]

\* t[:, ...] needs two dimensions
CanSliceColumns(t) == Len(t.shape) >= 2

RECURSIVE MaskRows(_, _)
MaskRows(rows, keep) ==
    IF rows = <<>> THEN <<>>
    ELSE (IF Head(keep) THEN <<Head(rows)>> ELSE <<>>) \o MaskRows(Tail(rows), Tail(keep))

\* t[keep] with a boolean mask over the first dimension
MaskSelect(t, keep) ==
    LET rows == MaskRows(t.data, keep)
    IN [shape |-> <<Len(rows)>> \o Tail(t.shape), data |-> rows]

\* ---------------------------------------------------- ConvertCocoPolysToMask
Clamp(v, lo, hi) == IF v < lo THEN lo ELSE IF v > hi THEN hi ELSE v

IsNonCrowd(o) == "iscrowd" \notin DOMAIN o \/ o.iscrowd = 0

NonCrowd(anno) == SelectSeq(anno, IsNonCrowd)

\* boxes[:, 2:] += boxes[:, :2]
ToCorners(b) == <<b[1], b[2], b[3] + b[1], b[4] + b[2]>>

\* boxes[:, 0::2].clamp_(0, w); boxes[:, 1::2].clamp_(0, h)
ClampBox(b, w, h) == <<Clamp(b[1], 0, w), Clamp(b[2], 0, h), Clamp(b[3], 0, w), Clamp(b[4], 0, h)>>

\* keep = (boxes[:, 3] > boxes[:, 1]) & (boxes[:, 2] > boxes[:, 0])
KeepBoxHeightOnly(b) == b[4] > b[2]

KeepBox(b) == b[4] > b[2] /\ b[3] > b[1]

\* one mask per segmentation, at (h, w) resolution
DecodeMask(seg, h, w) == [seg |-> seg, shape |-> <<h, w>>]

convert_coco_poly_to_mask(segmentations, height, width) ==
    LET masks == [i \in DOMAIN segmentations |-> DecodeMask(segmentations[i], height, width)]
    IN [shape |-> <<Len(masks), height, width>>, data |-> masks]

\* keypoints.view(n, -1, 3): the flat list of one object as K triples
Triples(flat) == [k \in 1..(Len(flat) \div 3) |-> <<flat[3*k - 2], flat[3*k - 1], flat[3*k]>>]

HasKeypointsAnywhere(anno) == \E i \in DOMAIN anno : "keypoints" \in DOMAIN anno[i]

\* anno and "keypoints" in anno[0]
HasKeypoints(anno) == anno # <<>> /\ "keypoints" \in DOMAIN anno[1]

Raise(e) == [err |-> e]

AreaRecomputed(o, w, h) ==
    LET b == ClampBox(ToCorners(o.bbox), w, h) IN (b[3] - b[1]) * (b[4] - b[2])

\* area = torch.tensor([obj["area"] for obj in anno])
AreaOf(o, w, h) == o.area

TargetAreaUnfiltered(area, keep) == area

\* target["area"] = area[keep]
TargetArea(area, keep) == MaskSelect(area, keep)


ConvertCall(w, h, image_id, annotations, return_masks) ==
    LET anno == NonCrowd(annotations)
        raw == Reshape4(TensorOfRows([i \in DOMAIN anno |-> anno[i].bbox], 4))
    IN
    IF ~CanSliceColumns(raw) THEN Raise("IndexError")
    ELSE
    LET boxes == [raw EXCEPT !.data = [i \in DOMAIN raw.data |-> ClampBox(ToCorners(raw.data[i]), w, h)]]
        classes == TensorOfScalars([i \in DOMAIN anno |-> anno[i].category_id])
        kp == HasKeypoints(anno)
    IN
    IF kp /\ \E i \in DOMAIN anno : "keypoints" \notin DOMAIN anno[i] THEN Raise("KeyError")
    ELSE
    LET keep == [i \in DOMAIN boxes.data |-> KeepBox(boxes.data[i])]
        masks == convert_coco_poly_to_mask([i \in DOMAIN anno |-> anno[i].segmentation], h, w)
        keypoints == [shape |-> <<Len(anno), Len(anno[1].keypoints) \div 3, 3>>,
                      data |-> [i \in DOMAIN anno |-> Triples(anno[i].keypoints)]]
        area == TensorOfScalars([i \in DOMAIN anno |-> AreaOf(anno[i], w, h)])
        iscrowd == TensorOfScalars([i \in DOMAIN anno |->
                       IF "iscrowd" \in DOMAIN anno[i] THEN anno[i].iscrowd ELSE 0])
        keys == {"boxes", "labels", "image_id", "area", "iscrowd", "orig_size", "size"}
                  \cup (IF return_masks THEN {"masks"} ELSE {})
                  \cup (IF kp THEN {"keypoints"} ELSE {})
    IN [err |-> "none",
        target |-> [k \in keys |->
            CASE k = "boxes" -> MaskSelect(boxes, keep)
              [] k = "labels" -> MaskSelect(classes, keep)
              [] k = "masks" -> MaskSelect(masks, keep)
              [] k = "image_id" -> TensorOfScalars(<<image_id>>)
              [] k = "keypoints" -> MaskSelect(keypoints, keep)
              [] k = "area" -> TargetArea(area, keep)
              [] k = "iscrowd" -> MaskSelect(iscrowd, keep)
              [] k = "orig_size" -> TensorOfScalars(<<h, w>>)
              [] k = "size" -> TensorOfScalars(<<h, w>>)]]

\* ------------------------------------------------------ make_coco_transforms
\* A.Compose([...]) without bbox_params
trans_val ==
    [kind |-> "Compose", stages |-> <<"Resize", "Normalize", "ToTensorV2">>,
     bbox_params |-> "none"]

\* A.Compose([..., trans_val], bbox_params=A.BboxParams(format='pascal_voc'))
trans_train ==
    [kind |-> "Compose",
     stages |-> <<"VerticalFlip", "HorizontalFlip", "Sharpen", "RandomBrightnessContrast",
                  "ColorJitter", "RandomGamma", "GaussNoise", "CLAHE", "trans_val">>,
     bbox_params |-> "pascal_voc"]

None == [kind |-> "None"]

Return(v) == [err |-> "none", value |-> v]

make_coco_transforms_fallback(image_set) ==
    IF image_set = "train" THEN Return(trans_train) ELSE Return(trans_val)

make_coco_transforms(image_set) ==
    IF image_set = "train" THEN Return(trans_train)
    ELSE IF image_set = "val" THEN Return(trans_val)
    ELSE Raise("ValueError")

\* -------------------------------------------------------------------- build
PATHS ==
    [train |-> <<"train2017", "annotations/instances_train2017.json">>,
     val |-> <<"val2017", "annotations/instances_val2017.json">>]

\* CocoDetection.__init__
CocoDetection(img_folder, ann_file, transforms, return_masks) ==
    [kind |-> "CocoDetection", transforms |-> transforms, return_masks |-> return_masks]

build(image_set, root_exists, masks) ==
    IF ~root_exists THEN Raise("AssertionError")
    ELSE IF image_set \notin DOMAIN PATHS THEN Raise("KeyError")
    ELSE LET t == make_coco_transforms(image_set)
         IN IF t.err # "none" THEN t
            ELSE Return(CocoDetection(PATHS[image_set][1], PATHS[image_set][2], t.value, masks))

\* ------------------------------------------------ the augmentation pipeline
\* rows are (x1, y1, x2, y2, label)
VerticalFlip(b, h) == <<b[1], h - b[4], b[3], h - b[2], b[5]>>

HorizontalFlip(b, w) == <<w - b[3], b[2], w - b[1], b[4], b[5]>>

\* A.Resize(height=640, width=640)
Resize(b, w, h) ==
    <<(b[1] * ResizeTo) \div w, (b[2] * ResizeTo) \div h,
      (b[3] * ResizeTo) \div w, (b[4] * ResizeTo) \div h, b[5]>>

TransformRow(pipe, b, w, h, vflip, hflip) ==
    LET names == {pipe.stages[i] : i \in DOMAIN pipe.stages}
        b1 == IF "VerticalFlip" \in names /\ vflip THEN VerticalFlip(b, h) ELSE b
        b2 == IF "HorizontalFlip" \in names /\ hflip THEN HorizontalFlip(b1, w) ELSE b1
    IN IF names \cap {"Resize", "trans_val"} # {} THEN Resize(b2, w, h) ELSE b2

\* self._transforms(image=..., bboxes=...): a pipeline without bbox_params
\* rejects the bboxes argument; otherwise the rows are flipped as drawn,
\* resized, and the rows the library filters out (dropped) are removed.
\* The result's bboxes is a python list of rows.
ComposeCall(pipe, w, h, bboxes, vflip, hflip, dropped) ==
    IF pipe.bbox_params = "none" THEN Raise("ValueError")
    ELSE [err |-> "none",
          bboxes |-> MaskRows([i \in DOMAIN bboxes.data |->
                                  TransformRow(pipe, bboxes.data[i], w, h, vflip, hflip)],
                              [i \in DOMAIN bboxes.data |-> i \notin dropped])]

\* np.hstack((tmp_boxes, tmp_labels[:, np.newaxis]))
HStack(boxes, labels) ==
    [shape |-> <<boxes.shape[1], boxes.shape[2] + 1>>,
     data |-> [i \in DOMAIN boxes.data |-> Append(boxes.data[i], labels.data[i])]]

\* ------------------------------------------------ CocoDetection.__getitem__
\* util.box_ops.box_xyxy_to_cxcywh: ((x1+x2)/2, (y1+y2)/2, x2-x1, y2-y1)
box_xyxy_to_cxcywh(b) == <<<<b[1] + b[3], 2>>, <<b[2] + b[4], 2>>, <<b[3] - b[1], 1>>, <<b[4] - b[2], 1>>>>

\* a quotient divided by k
DivideBy(q, k) == <<q[1], q[2] * k>>

\* a corner box left as it is; float coordinates of the returned target are
\* written as quotients
KeepCorners(b) == <<<<b[1], 1>>, <<b[2], 1>>, <<b[3], 1>>, <<b[4], 1>>>>

NormalizeBoxNoDivide(b) == box_xyxy_to_cxcywh(b)

\* box_xyxy_to_cxcywh(target["boxes"]) / 640.0, one row
NormalizeBox(b) == [c \in 1..4 |-> DivideBy(box_xyxy_to_cxcywh(b)[c], NormConst)]

\* the target of super().__getitem__ is normalised by self.prepare; prepared
\* and bboxes record the normalised target and the pipeline's rows
getitem(self, img, vflip, hflip, dropped) ==
    LET p == ConvertCall(img.w, img.h, img.image_id, img.annotations, self.return_masks)
    IN
    IF p.err # "none" THEN p
    ELSE IF self.transforms = None
    THEN [err |-> "none",
          target |-> [p.target EXCEPT !.boxes.data =
                         [i \in DOMAIN p.target.boxes.data |-> KeepCorners(p.target.boxes.data[i])]],
          prepared |-> p.target]
    ELSE
    LET r == ComposeCall(self.transforms, img.w, img.h,
                         HStack(p.target.boxes, p.target.labels), vflip, hflip, dropped)
    IN
    IF r.err # "none" THEN r
    ELSE
    LET t == TensorOfRows(r.bboxes, 5)
    IN
    IF ~CanSliceColumns(t) THEN Raise("IndexError")
    ELSE
    LET boxes == [shape |-> <<t.shape[1], 4>>,
                  data |-> [i \in DOMAIN t.data |-> NormalizeBox(SubSeq(t.data[i], 1, 4))]]
        labels == [shape |-> <<t.shape[1]>>, data |-> [i \in DOMAIN t.data |-> t.data[i][5]]]
    IN [err |-> "none",
        target |-> [k \in DOMAIN p.target |->
                       IF k = "boxes" THEN boxes ELSE IF k = "labels" THEN labels ELSE p.target[k]],
        prepared |-> p.target,
        bboxes |-> r.bboxes]

\* ------------------------------------------------------------------ actions
Stores(sizes, records) ==
    {[w |-> size[1], h |-> size[2], image_id |-> id, annotations |-> anno] :
        size \in sizes, id \in ImageIds, anno \in SeqsUpTo(records, MaxAnno)}

\* ConvertCocoPolysToMask(return_masks), and an image with its annotations
InitPrepare ==
    /\ obj \in [kind : {"ConvertCocoPolysToMask"}, return_masks : BOOLEAN]
    /\ store \in Stores(Sizes, Records)
    /\ op = "init"
    /\ arg = <<>>
    /\ res = Raise("none")

\* ConvertCocoPolysToMask.__call__(image, target)
Call ==
    /\ obj.kind = "ConvertCocoPolysToMask"
    /\ op' = "call"
    /\ arg' = <<>>
    /\ res' = ConvertCall(store.w, store.h, store.image_id, store.annotations, obj.return_masks)
    /\ UNCHANGED <<obj, store>>

NextPrepare == Call

SpecPrepare == InitPrepare /\ [][NextPrepare]_vars

\* the rows the pipeline filters out of one call: none or one of them
Drops == {{}} \cup {{i} : i \in 1..MaxAnno}

\* no dataset yet; the image the annotation file holds
Init ==
    /\ obj = None
    /\ store \in Stores(ItemSizes, ItemRecords)
    /\ op = "init"
    /\ arg = <<>>
    /\ res = Raise("none")

\* make_coco_transforms(image_set)
MakeTransforms(image_set) ==
    /\ op' = "make_coco_transforms"
    /\ arg' = [image_set |-> image_set]
    /\ res' = make_coco_transforms(image_set)
    /\ UNCHANGED <<obj, store>>

\* build(image_set, args)
Build(image_set, root_exists, masks) ==
    /\ op' = "build"
    /\ arg' = [image_set |-> image_set, root_exists |-> root_exists, masks |-> masks]
    /\ res' = build(image_set, root_exists, masks)
    /\ obj' = IF res'.err = "none" THEN res'.value ELSE obj
    /\ UNCHANGED store

\* CocoDetection(img_folder, ann_file, None, return_masks)
Construct(masks) ==
    /\ op' = "construct"
    /\ arg' = [masks |-> masks]
    /\ res' = Return(CocoDetection("img_folder", "ann_file", None, masks))
    /\ obj' = res'.value
    /\ UNCHANGED store

\* dataset[idx]; vflip, hflip and dropped are the pipeline's draws
GetItem(vflip, hflip, dropped) ==
    /\ obj.kind = "CocoDetection"
    /\ op' = "getitem"
    /\ arg' = [vflip |-> vflip, hflip |-> hflip, dropped |-> dropped]
    /\ res' = getitem(obj, store, vflip, hflip, dropped)
    /\ UNCHANGED <<obj, store>>

Next ==
    \/ \E image_set \in ImageSets : MakeTransforms(image_set)
    \/ \E image_set \in ImageSets, root_exists \in BOOLEAN, masks \in BOOLEAN :
          Build(image_set, root_exists, masks)
    \/ \E masks \in BOOLEAN : Construct(masks)
    \/ \E vflip \in BOOLEAN, hflip \in BOOLEAN, dropped \in Drops :
          GetItem(vflip, hflip, dropped)

Spec == Init /\ [][Next]_vars

\* --------------------------------------------- claims on the normaliser
\* the call returned a target record
CallDone == op = "call" /\ res.err = "none"

Lo(a, b) == IF a < b THEN a ELSE b

Hi(a, b) == IF a > b THEN a ELSE b

\* the corner box the record is expected to give on a w x h image
ExpectedBox(o, w, h) ==
    <<Hi(0, Lo(o.bbox[1], w)), Hi(0, Lo(o.bbox[2], h)),
      Hi(0, Lo(o.bbox[1] + o.bbox[3], w)), Hi(0, Lo(o.bbox[2] + o.bbox[4], h))>>

\* indices of the records expected to survive: non-crowd, box not degenerate
Survivors(s) ==
    {j \in DOMAIN s.annotations :
        LET o == s.annotations[j]
            b == ExpectedBox(o, s.w, s.h)
        IN /\ ("iscrowd" \in DOMAIN o => o.iscrowd = 0)
           /\ b[3] > b[1]
           /\ b[4] > b[2]}

\* position of survivor j in the output
Rank(Q, j) == Cardinality({k \in Q : k <= j})

\* C1: the target holds, in input order, exactly one entry per non-crowd
\* record whose clamped box is not degenerate: its clamped corner box, its
\* category_id and its source area
C1_SurvivorsInOrder ==
    CallDone =>
        LET Q == Survivors(store)
            t == res.target
        IN /\ Len(t.boxes.data) = Cardinality(Q)
           /\ Len(t.labels.data) = Cardinality(Q)
           /\ Len(t.area.data) = Cardinality(Q)
           /\ \A j \in Q :
                /\ t.boxes.data[Rank(Q, j)] = ExpectedBox(store.annotations[j], store.w, store.h)
                /\ t.labels.data[Rank(Q, j)] = store.annotations[j].category_id
                /\ t.area.data[Rank(Q, j)] = store.annotations[j].area

\* a crowd record was dropped and the survivor behind it was clamped to w
C1_Witness ==
    /\ CallDone
    /\ Len(store.annotations) = 2
    /\ "iscrowd" \in DOMAIN store.annotations[1]
    /\ store.annotations[1].iscrowd = 1
    /\ Len(res.target.boxes.data) = 1
    /\ store.annotations[2].bbox[1] + store.annotations[2].bbox[3] > store.w
    /\ res.target.boxes.data[1][3] = store.w

PerObjectKeys == {"boxes", "labels", "area", "iscrowd", "masks", "keypoints"}

\* C2: boxes, labels, area, iscrowd, and masks and keypoints when present,
\* all have the same length
C2_SameLength ==
    CallDone =>
        /\ ("masks" \in DOMAIN res.target) = obj.return_masks
        /\ \A k \in PerObjectKeys \cap DOMAIN res.target :
              /\ res.target[k].shape[1] = res.target.boxes.shape[1]
              /\ Len(res.target[k].data) = Len(res.target.boxes.data)
              /\ Len(res.target[k].data) = res.target[k].shape[1]

\* masks and keypoints are present and the keep-mask removed an object
C2_Witness ==
    /\ CallDone
    /\ {"masks", "keypoints"} \subseteq DOMAIN res.target
    /\ Len(res.target.boxes.data) >= 1
    /\ Len(NonCrowd(store.annotations)) > Len(res.target.boxes.data)

\* C3: every emitted box lies in the image and has positive width and
\* height; when every record is degenerate after clamping nothing is emitted
C3_BoxesInsideImage ==
    CallDone =>
        /\ \A i \in DOMAIN res.target.boxes.data :
              LET b == res.target.boxes.data[i]
              IN /\ 0 <= b[1] /\ b[1] < b[3] /\ b[3] <= store.w
                 /\ 0 <= b[2] /\ b[2] < b[4] /\ b[4] <= store.h
        /\ Len(res.target.boxes.data) <= Cardinality(Survivors(store))

\* a box left of the image was dropped next to an emitted box
C3_Witness ==
    /\ CallDone
    /\ Len(res.target.boxes.data) = 1
    /\ \E j \in DOMAIN store.annotations :
          /\ IsNonCrowd(store.annotations[j])
          /\ store.annotations[j].bbox[1] + store.annotations[j].bbox[3] < 0
          /\ store.annotations[j].bbox[4] > 0

OnlyCrowd(anno) ==
    \A i \in DOMAIN anno : "iscrowd" \in DOMAIN anno[i] /\ anno[i].iscrowd = 1

\* C4: an empty or crowd-only annotation list raises nothing and gives
\* boxes of shape (0,4) and zero-length labels, area, iscrowd and masks
C4_EmptyInput ==
    (op = "call" /\ OnlyCrowd(store.annotations)) =>
        /\ res.err = "none"
        /\ res.target.boxes.shape = <<0, 4>>
        /\ res.target.labels.shape = <<0>>
        /\ res.target.area.shape = <<0>>
        /\ res.target.iscrowd.shape = <<0>>
        /\ obj.return_masks => res.target.masks.shape = <<0, store.h, store.w>>

\* the call ran on a list of crowd records with masks requested
C4_Witness ==
    /\ op = "call"
    /\ store.annotations # <<>>
    /\ OnlyCrowd(store.annotations)
    /\ obj.return_masks
    /\ res.err = "none"

CarriesKeypoints(o) == "keypoints" \in DOMAIN o

\* C5 as stated: keypoints on any non-crowd record, whatever its position,
\* give a keypoints entry with one row per surviving object; keypoints on
\* no record give no keypoints key
C5_AnyRecordKeypoints ==
    op = "call" =>
        LET nc == NonCrowd(store.annotations)
        IN /\ (\E i \in DOMAIN nc : CarriesKeypoints(nc[i])) =>
                 /\ res.err = "none"
                 /\ "keypoints" \in DOMAIN res.target
                 /\ Len(res.target.keypoints.data) = Len(res.target.boxes.data)
           /\ (\A i \in DOMAIN store.annotations : ~CarriesKeypoints(store.annotations[i])) =>
                 /\ res.err = "none"
                 /\ "keypoints" \notin DOMAIN res.target

\* C5 amended: the first non-crowd record decides.  If it carries keypoints
\* the call raises KeyError when another non-crowd record lacks them and
\* otherwise gives a keypoints entry with one row per surviving object; if
\* it carries none (or no record is non-crowd) there is no keypoints key
C5_FirstRecordKeypoints ==
    op = "call" =>
        LET nc == NonCrowd(store.annotations)
            first == nc # <<>> /\ CarriesKeypoints(nc[1])
            all == \A i \in DOMAIN nc : CarriesKeypoints(nc[i])
        IN /\ (first /\ all) =>
                 /\ res.err = "none"
                 /\ "keypoints" \in DOMAIN res.target
                 /\ Len(res.target.keypoints.data) = Len(res.target.boxes.data)
           /\ (first /\ ~all) => res.err = "KeyError"
           /\ ~first => (res.err = "none" /\ "keypoints" \notin DOMAIN res.target)

\* the first non-crowd record has no keypoints, the second one has
C5_Witness ==
    /\ CallDone
    /\ Len(NonCrowd(store.annotations)) = 2
    /\ ~CarriesKeypoints(NonCrowd(store.annotations)[1])
    /\ CarriesKeypoints(NonCrowd(store.annotations)[2])
    /\ "keypoints" \notin DOMAIN res.target

\* ------------------------------------------------ claims on the dataset
ValidModes == {"train", "val"}

\* C6: for train and for val the returned pipeline is configured with the
\* corner box convention and accepts a call that passes boxes
C6_BothModesTakeBoxes ==
    /\ (op = "make_coco_transforms" /\ arg.image_set \in ValidModes) =>
          (res.err = "none" /\ res.value.bbox_params = "pascal_voc")
    /\ (op = "getitem" /\ obj.transforms # None) => res.err # "ValueError"

MakeRaisesOnUnknownMode ==
    op = "make_coco_transforms" =>
        IF arg.image_set \in ValidModes
        THEN res.err = "none" /\ res.value \in {trans_train, trans_val}
        ELSE res.err = "ValueError" /\ "value" \notin DOMAIN res

\* C7 as stated: make_coco_transforms raises ValueError for every mode other
\* than train and val, and build (on an existing root) fails with that same
\* ValueError
C7_BuildRaisesValueError ==
    /\ MakeRaisesOnUnknownMode
    /\ (op = "build" /\ arg.root_exists /\ arg.image_set \notin ValidModes) =>
          res.err = "ValueError"

\* C7 amended: make_coco_transforms raises ValueError for every mode other
\* than train and val; build given such a mode produces no dataset and fails
\* with AssertionError when the root path is missing and otherwise with the
\* KeyError of the PATHS lookup
C7_BuildFailsOnUnknownMode ==
    /\ MakeRaisesOnUnknownMode
    /\ (op = "build" /\ arg.image_set \notin ValidModes) =>
          /\ res.err = (IF arg.root_exists THEN "KeyError" ELSE "AssertionError")
          /\ "value" \notin DOMAIN res

\* build ran with an unknown mode on an existing root
C7_Witness ==
    /\ op = "build"
    /\ arg.image_set = "test"
    /\ arg.root_exists
    /\ res.err = "KeyError"

\* the quotient q equals n / d
QuotientIs(q, n, d) == q[1] * d = n * q[2]

\* row is the centre-size form of the corner box c divided by 640
IsCenterSizeOf(row, c) ==
    /\ QuotientIs(row[1], c[1] + c[3], 2 * 640)
    /\ QuotientIs(row[2], c[2] + c[4], 2 * 640)
    /\ QuotientIs(row[3], c[3] - c[1], 640)
    /\ QuotientIs(row[4], c[4] - c[2], 640)

\* row is the corner box c itself
IsCornersOf(row, c) == \A k \in 1..4 : QuotientIs(row[k], c[k], 1)

ItemDone == op = "getitem" /\ res.err = "none"

\* the corner boxes the returned boxes come from: the pipeline's rows, or
\* the normalised boxes when there is no pipeline
CornerRows == IF "bboxes" \in DOMAIN res THEN res.bboxes ELSE res.prepared.boxes.data

\* C8 as stated: with or without a pipeline the returned boxes are
\* (cx, cy, w, h) / 640
C8_AlwaysCenterSize ==
    ItemDone =>
        /\ Len(res.target.boxes.data) = Len(CornerRows)
        /\ \A i \in DOMAIN CornerRows : IsCenterSizeOf(res.target.boxes.data[i], CornerRows[i])

\* C8 amended: with a pipeline the returned boxes are (cx, cy, w, h) / 640
\* of the pipeline's corner boxes; without one they are the normaliser's
\* corner boxes unchanged
C8_CenterSizeWithPipeline ==
    ItemDone =>
        /\ Len(res.target.boxes.data) = Len(CornerRows)
        /\ \A i \in DOMAIN CornerRows :
              IF obj.transforms = None
              THEN IsCornersOf(res.target.boxes.data[i], CornerRows[i])
              ELSE IsCenterSizeOf(res.target.boxes.data[i], CornerRows[i])

\* the training pipeline flipped and returned a box
C8_Witness ==
    /\ ItemDone
    /\ obj.transforms = trans_train
    /\ arg.hflip
    /\ Len(res.target.boxes.data) >= 1

\* C9: with a pipeline every per-object array has the length of boxes and
\* labels[i] is the label that went into the pipeline with box i
C9_ArraysAligned ==
    (ItemDone /\ obj.transforms # None) =>
        /\ \A k \in PerObjectKeys \cap DOMAIN res.target :
              Len(res.target[k].data) = Len(res.target.boxes.data)
        /\ \A i \in DOMAIN res.bboxes : res.target.labels.data[i] = res.bboxes[i][5]

\* C10: with a pipeline (one that takes boxes) an image without surviving
\* object gives boxes of shape (0,4) and zero-length labels and raises nothing
C10_EmptyItem ==
    (op = "getitem" /\ obj.transforms # None /\ obj.transforms.bbox_params # "none"
        /\ Survivors(store) = {}) =>
        /\ res.err = "none"
        /\ res.target.boxes.shape = <<0, 4>>
        /\ res.target.labels.shape = <<0>>

====
